---- MODULE Spec2Model ----
(***************************************************************************)
(* Model of the remote evaluation bridge of                                *)
(* packages/cli/src/editor/components/NewComposition/InputDragger.tsx      *)
(* (lines 170-363): _evaluateInternal, convertArgument,                    *)
(* valueFromRemoteObject and rewriteError.                                 *)
(*                                                                         *)
(* Texts (program text, error messages, unserializable tags) are finite    *)
(* sequences of string tokens.  A token is either one character or one     *)
(* fixed phrase of the source, so that includes / startsWith / endsWith /  *)
(* the source-URL regular expression are computed position by position.    *)
(***************************************************************************)
EXTENDS Integers, Sequences, FiniteSets, TLC

VARIABLES
    pageFunction,   \* the first argument: [kind, text]
    args,           \* the caller's argument list
    frame,          \* <<>> for null, <<n>> for frame index n
    contextId,      \* target execution context
    transport,      \* what client.send does with this call's command
    disposed,       \* JSHandle._disposed of every handle (owned by a collaborator)
    pc,             \* position of the call inside _evaluateInternal
    functionText,   \* local variable functionText (line 258)
    converted,      \* results of args.map(convertArgument) so far (line 283)
    sent,           \* every command handed to client.send, in order
    outcome,        \* what the returned promise settled with
    cval,           \* codec harness: the value handed to convertArgument
    cro,            \* codec harness: a RemoteObject handed to valueFromRemoteObject
    cenc,           \* codec harness: result of convertArgument(cval)
    cdec,           \* codec harness: result of valueFromRemoteObject
    cpc,            \* codec harness: position
    suspended       \* the locals and parameters of a second call that is not running

callVars == <<pageFunction, args, frame, contextId, transport, pc,
              functionText, converted, sent, outcome>>
codecVars == <<cval, cro, cenc, cdec, cpc>>
vars == <<pageFunction, args, frame, contextId, transport, disposed, pc,
          functionText, converted, sent, outcome, cval, cro, cenc, cdec, cpc,
          suspended>>

(***************************************************************************)
(* Bounds                                                                  *)
(***************************************************************************)
MaxArgs == 2        \* longest argument list
MaxMsgLen == 2      \* longest transport error message, in phrases
MaxTextLen == 4     \* longest expression text, in tokens
MaxBig == 11        \* largest magnitude of a number or big integer

(***************************************************************************)
(* Generic text helpers (String.prototype.includes / startsWith /          *)
(* endsWith / replace / split on token sequences).                         *)
(***************************************************************************)
RECURSIVE SeqsUpTo(_, _)
SeqsUpTo(S, n) ==
    IF n = 0 THEN {<<>>}
    ELSE LET shorter == SeqsUpTo(S, n - 1)
         IN  shorter \cup {Append(s, x) : s \in {t \in shorter : Len(t) = n - 1}, x \in S}

includes(msg, phrase) == \E i \in 1..Len(msg) : msg[i] = phrase
startsWith(msg, phrase) == Len(msg) >= 1 /\ msg[1] = phrase
endsWith(msg, phrase) == Len(msg) >= 1 /\ msg[Len(msg)] = phrase

\* s.replace(c, ''): removes the first occurrence of c only.
replaceFirst(s, c) ==
    IF ~includes(s, c) THEN s
    ELSE LET i == CHOOSE j \in 1..Len(s) :
                      s[j] = c /\ \A m \in 1..(j - 1) : s[m] # c
         IN  SubSeq(s, 1, i - 1) \o SubSeq(s, i + 1, Len(s))

\* s.split('\n'): the lines of s, as a sequence of token sequences.
RECURSIVE split(_)
split(s) ==
    IF ~includes(s, "\n") THEN <<s>>
    ELSE LET i == CHOOSE j \in 1..Len(s) :
                      s[j] = "\n" /\ \A m \in 1..(j - 1) : s[m] # "\n"
         IN  <<SubSeq(s, 1, i - 1)>> \o split(SubSeq(s, i + 1, Len(s)))

(***************************************************************************)
(* JavaScript values.  Every value is a record [t, k, n]: t the typeof     *)
(* class, k the kind of number (or the handle's identity), n the integer.  *)
(***************************************************************************)
Undefined == [t |-> "undefined", k |-> "", n |-> 0]
Num(n) == [t |-> "number", k |-> "fin", n |-> n]
NegZero == [t |-> "number", k |-> "-0", n |-> 0]
NaNValue == [t |-> "number", k |-> "NaN", n |-> 0]
PosInfinity == [t |-> "number", k |-> "Infinity", n |-> 0]
NegInfinity == [t |-> "number", k |-> "-Infinity", n |-> 0]
BigIntV(n) == [t |-> "bigint", k |-> "", n |-> n]
PlainObject == [t |-> "object", k |-> "", n |-> 0]
HandleV(h) == [t |-> "handle", k |-> h, n |-> 0]

\* Object.is(a, b): identity of values, NaN equal to itself, -0 unlike +0.
ObjectIs(a, b) == a = b

HandleIds == {"h1", "h2", "h3", "h4"}

Sentinels == {NegZero, NaNValue, PosInfinity, NegInfinity}
Numbers == {Num(n) : n \in (0 - MaxBig)..MaxBig} \cup Sentinels
BigInts == {BigIntV(n) : n \in (0 - MaxBig)..MaxBig}
CodecValues ==
    Numbers \cup BigInts \cup {Undefined, PlainObject} \cup {HandleV(h) : h \in HandleIds}

(***************************************************************************)
(* Unserializable tags: sequences of characters.                           *)
(***************************************************************************)
TagNegZero == <<"-", "0">>
TagNaN == <<"N", "a", "N">>
TagInfinity == <<"I", "n", "f", "i", "n", "i", "t", "y">>
TagNegInfinity == <<"-">> \o TagInfinity

DigitChars == <<"0", "1", "2", "3", "4", "5", "6", "7", "8", "9">>
IsDigit(c) == \E d \in 1..Len(DigitChars) : DigitChars[d] = c
DigitValue(c) == (CHOOSE d \in 1..Len(DigitChars) : DigitChars[d] = c) - 1

\* Number/BigInt.prototype.toString for integers: decimal digits, '-' first
\* when negative.
RECURSIVE NatToString(_)
NatToString(n) ==
    IF n < 10 THEN <<DigitChars[n + 1]>>
    ELSE Append(NatToString(n \div 10), DigitChars[(n % 10) + 1])
IntToString(n) == IF n < 0 THEN <<"-">> \o NatToString(0 - n) ELSE NatToString(n)

RECURSIVE DigitsToNat(_)
DigitsToNat(s) ==
    IF s = <<>> THEN 0
    ELSE 10 * DigitsToNat(SubSeq(s, 1, Len(s) - 1)) + DigitValue(s[Len(s)])

(***************************************************************************)
(* Errors and fallible results.                                            *)
(***************************************************************************)
MakeError(cls, msg, origin) ==
    [cls |-> cls, name |-> cls, msg |-> msg, origin |-> origin,
     stack |-> <<>>, frame |-> <<>>, stackFrame |-> <<>>]
NewError(msg) == MakeError("Error", msg, "bridge")
NoError == MakeError("", <<>>, "")

Return(v) == [ok |-> TRUE, val |-> v, err |-> NoError]
Throw(e) == [ok |-> FALSE, val |-> Undefined, err |-> e]

\* BigInt(string): an optionally signed run of decimal digits, or the empty
\* string (0n); anything else is a SyntaxError.
BigIntFromString(s) ==
    LET body == IF startsWith(s, "-") THEN Tail(s) ELSE s
    IN  IF s = <<>> THEN Return(BigIntV(0))
        ELSE IF body # <<>> /\ \A i \in 1..Len(body) : IsDigit(body[i])
        THEN Return(BigIntV(IF startsWith(s, "-")
                            THEN 0 - DigitsToNat(body) ELSE DigitsToNat(body)))
        ELSE Throw(MakeError("SyntaxError", <<"Cannot convert ">> \o s \o <<" to a BigInt">>, "engine"))

(***************************************************************************)
(* Protocol.Runtime.RemoteObject and Protocol.Runtime.CallArgument.        *)
(* An absent string field is the empty text (falsy, like undefined).       *)
(***************************************************************************)
RemoteObject(type, tag, value, objectId) ==
    [type |-> type, unserializableValue |-> tag, value |-> value, objectId |-> objectId]

\* The _remoteObject of each handle.
RemoteObjectOf(h) ==
    CASE h = "h1" -> RemoteObject("object", <<>>, Undefined, <<"obj-1">>)
      [] h = "h2" -> RemoteObject("number", TagNegZero, Undefined, <<>>)
      [] h = "h4" -> RemoteObject("number", TagNaN, Undefined, <<"obj-4">>)
      [] OTHER    -> RemoteObject("number", <<>>, Num(7), <<>>)

\* A CallArgument object literal: keys is the set of fields it carries.
ArgUnserializable(tag) ==
    [keys |-> {"unserializableValue"}, unserializableValue |-> tag,
     value |-> Undefined, objectId |-> <<>>]
ArgValue(v) ==
    [keys |-> {"value"}, unserializableValue |-> <<>>, value |-> v, objectId |-> <<>>]
ArgObjectId(id) ==
    [keys |-> {"objectId"}, unserializableValue |-> <<>>, value |-> Undefined,
     objectId |-> id]

\* Reading a CallArgument through the RemoteObject interface: same field
\* names, no type field.
AsRemoteObject(a) == RemoteObject("", a.unserializableValue, a.value, a.objectId)

(***************************************************************************)
(* valueFromRemoteObject (lines 178-200)                                   *)
(***************************************************************************)
valueFromRemoteObject_NegZeroAsZero(remoteObject) ==
    IF remoteObject.unserializableValue # <<>>
    THEN IF remoteObject.type = "bigint"
         THEN BigIntFromString(replaceFirst(remoteObject.unserializableValue, "n"))
         ELSE CASE remoteObject.unserializableValue = TagNegZero -> Return(Num(0))
                [] remoteObject.unserializableValue = TagNaN -> Return(NaNValue)
                [] remoteObject.unserializableValue = TagInfinity -> Return(PosInfinity)
                [] remoteObject.unserializableValue = TagNegInfinity -> Return(NegInfinity)
                [] OTHER -> Throw(NewError(<<"Unsupported unserializable value: ">>
                                           \o remoteObject.unserializableValue))
    ELSE Return(remoteObject.value)

valueFromRemoteObject_KeepsSuffix(remoteObject) ==
    IF remoteObject.unserializableValue # <<>>
    THEN IF remoteObject.type = "bigint"
         THEN BigIntFromString(remoteObject.unserializableValue)
         ELSE CASE remoteObject.unserializableValue = TagNegZero -> Return(NegZero)
                [] remoteObject.unserializableValue = TagNaN -> Return(NaNValue)
                [] remoteObject.unserializableValue = TagInfinity -> Return(PosInfinity)
                [] remoteObject.unserializableValue = TagNegInfinity -> Return(NegInfinity)
                [] OTHER -> Throw(NewError(<<"Unsupported unserializable value: ">>
                                           \o remoteObject.unserializableValue))
    ELSE Return(remoteObject.value)

valueFromRemoteObject_ByTag(remoteObject) ==
    IF remoteObject.unserializableValue # <<>>
    THEN IF endsWith(remoteObject.unserializableValue, "n")
         THEN BigIntFromString(replaceFirst(remoteObject.unserializableValue, "n"))
         ELSE CASE remoteObject.unserializableValue = TagNegZero -> Return(NegZero)
                [] remoteObject.unserializableValue = TagNaN -> Return(NaNValue)
                [] remoteObject.unserializableValue = TagInfinity -> Return(PosInfinity)
                [] remoteObject.unserializableValue = TagNegInfinity -> Return(NegInfinity)
                [] OTHER -> Throw(NewError(<<"Unsupported unserializable value: ">>
                                           \o remoteObject.unserializableValue))
    ELSE Return(remoteObject.value)

valueFromRemoteObject(remoteObject) ==
    IF remoteObject.unserializableValue # <<>>
    THEN IF remoteObject.type = "bigint"
         THEN BigIntFromString(replaceFirst(remoteObject.unserializableValue, "n"))
         ELSE CASE remoteObject.unserializableValue = TagNegZero -> Return(NegZero)
                [] remoteObject.unserializableValue = TagNaN -> Return(NaNValue)
                [] remoteObject.unserializableValue = TagInfinity -> Return(PosInfinity)
                [] remoteObject.unserializableValue = TagNegInfinity -> Return(NegInfinity)
                [] OTHER -> Throw(NewError(<<"Unsupported unserializable value: ">>
                                           \o remoteObject.unserializableValue))
    ELSE Return(remoteObject.value)

(***************************************************************************)
(* convertArgument (lines 326-347)                                         *)
(***************************************************************************)
convertArgument_NoDisposedCheck(arg) ==
    IF arg.t = "bigint" THEN Return(ArgUnserializable(Append(IntToString(arg.n), "n")))
    ELSE IF ObjectIs(arg, NegZero) THEN Return(ArgUnserializable(TagNegZero))
    ELSE IF ObjectIs(arg, PosInfinity) THEN Return(ArgUnserializable(TagInfinity))
    ELSE IF ObjectIs(arg, NegInfinity) THEN Return(ArgUnserializable(TagNegInfinity))
    ELSE IF ObjectIs(arg, NaNValue) THEN Return(ArgUnserializable(TagNaN))
    ELSE IF arg.t = "handle"
    THEN LET remoteObject == RemoteObjectOf(arg.k)
         IN  IF remoteObject.unserializableValue # <<>>
             THEN Return(ArgUnserializable(remoteObject.unserializableValue))
             ELSE IF remoteObject.objectId = <<>>
             THEN Return(ArgValue(remoteObject.value))
             ELSE Return(ArgObjectId(remoteObject.objectId))
    ELSE Return(ArgValue(arg))

convertArgument_LooseZero(arg) ==
    IF arg.t = "bigint" THEN Return(ArgUnserializable(Append(IntToString(arg.n), "n")))
    ELSE IF arg.t = "number" /\ arg.k \in {"fin", "-0"} /\ arg.n = 0
    THEN Return(ArgUnserializable(TagNegZero))
    ELSE IF ObjectIs(arg, PosInfinity) THEN Return(ArgUnserializable(TagInfinity))
    ELSE IF ObjectIs(arg, NegInfinity) THEN Return(ArgUnserializable(TagNegInfinity))
    ELSE IF ObjectIs(arg, NaNValue) THEN Return(ArgUnserializable(TagNaN))
    ELSE IF arg.t = "handle"
    THEN LET objectHandle == arg.k
             remoteObject == RemoteObjectOf(objectHandle)
         IN  IF disposed[objectHandle] THEN Throw(NewError(<<"JSHandle is disposed!">>))
             ELSE IF remoteObject.unserializableValue # <<>>
             THEN Return(ArgUnserializable(remoteObject.unserializableValue))
             ELSE IF remoteObject.objectId = <<>>
             THEN Return(ArgValue(remoteObject.value))
             ELSE Return(ArgObjectId(remoteObject.objectId))
    ELSE Return(ArgValue(arg))

convertArgument_ObjectIdFirst(arg) ==
    IF arg.t = "bigint" THEN Return(ArgUnserializable(Append(IntToString(arg.n), "n")))
    ELSE IF ObjectIs(arg, NegZero) THEN Return(ArgUnserializable(TagNegZero))
    ELSE IF ObjectIs(arg, PosInfinity) THEN Return(ArgUnserializable(TagInfinity))
    ELSE IF ObjectIs(arg, NegInfinity) THEN Return(ArgUnserializable(TagNegInfinity))
    ELSE IF ObjectIs(arg, NaNValue) THEN Return(ArgUnserializable(TagNaN))
    ELSE IF arg.t = "handle"
    THEN LET objectHandle == arg.k
             remoteObject == RemoteObjectOf(objectHandle)
         IN  IF disposed[objectHandle] THEN Throw(NewError(<<"JSHandle is disposed!">>))
             ELSE IF remoteObject.objectId # <<>>
             THEN Return(ArgObjectId(remoteObject.objectId))
             ELSE IF remoteObject.unserializableValue # <<>>
             THEN Return(ArgUnserializable(remoteObject.unserializableValue))
             ELSE Return(ArgValue(remoteObject.value))
    ELSE Return(ArgValue(arg))

convertArgument(arg) ==
    IF arg.t = "bigint" THEN Return(ArgUnserializable(Append(IntToString(arg.n), "n")))
    ELSE IF ObjectIs(arg, NegZero) THEN Return(ArgUnserializable(TagNegZero))
    ELSE IF ObjectIs(arg, PosInfinity) THEN Return(ArgUnserializable(TagInfinity))
    ELSE IF ObjectIs(arg, NegInfinity) THEN Return(ArgUnserializable(TagNegInfinity))
    ELSE IF ObjectIs(arg, NaNValue) THEN Return(ArgUnserializable(TagNaN))
    ELSE IF arg.t = "handle"
    THEN LET objectHandle == arg.k
             remoteObject == RemoteObjectOf(objectHandle)
         IN  IF disposed[objectHandle] THEN Throw(NewError(<<"JSHandle is disposed!">>))
             ELSE IF remoteObject.unserializableValue # <<>>
             THEN Return(ArgUnserializable(remoteObject.unserializableValue))
             ELSE IF remoteObject.objectId = <<>>
             THEN Return(ArgValue(remoteObject.value))
             ELSE Return(ArgObjectId(remoteObject.objectId))
    ELSE Return(ArgValue(arg))

(***************************************************************************)
(* Program text.  Tokens: the characters " ", "\t", "\n", the opaque       *)
(* non-blank character "x", and the fixed pieces "//#", "//@" and          *)
(* "sourceURL=" of a source-URL comment.                                   *)
(***************************************************************************)
EVALUATION_SCRIPT_URL == "__puppeteer_evaluation_script__"

\* const suffix = `//# sourceURL=${EVALUATION_SCRIPT_URL}` (line 219)
suffix == <<"//#", " ", "sourceURL=", EVALUATION_SCRIPT_URL>>

IsWhitespace(c) == c \in {" ", "\t", "\n"}
IsBlankOrTab(c) == c \in {" ", "\t"}
IsNonWhitespace(c) == ~IsWhitespace(c)
\* [\040\t]*, \s* and \S* consuming text[from..to]
AllBlankOrTab(text, from, to) == \A m \in from..to : IsBlankOrTab(text[m])
AllWhitespace(text, from, to) == \A m \in from..to : IsWhitespace(text[m])
AllNonWhitespace(text, from, to) == \A m \in from..to : IsNonWhitespace(text[m])

\* ^ under the m flag: start of input or just after a line terminator.
AtLineStart(text, i) == i = 1 \/ text[i - 1] = "\n"
\* $ under the m flag: end of input or just before a line terminator.
AtLineEnd(text, i) == i = Len(text) + 1 \/ text[i] = "\n"

\* /^[\040\t]*\/\/[@#] sourceURL=\s*(\S*?)\s*$/m matched with ^ at position i.
SourceUrlMatchAt(text, i) ==
    /\ AtLineStart(text, i)
    /\ \E j \in i..Len(text) :
          /\ AllBlankOrTab(text, i, j - 1)
          /\ j + 2 <= Len(text)
          /\ text[j] \in {"//#", "//@"}
          /\ text[j + 1] = " "
          /\ text[j + 2] = "sourceURL="
          /\ \E q \in (j + 3)..(Len(text) + 1) :
                /\ AllWhitespace(text, j + 3, q - 1)
                /\ \E r \in q..(Len(text) + 1) :
                      /\ AllNonWhitespace(text, q, r - 1)
                      /\ \E e \in r..(Len(text) + 1) :
                            /\ AllWhitespace(text, r, e - 1)
                            /\ AtLineEnd(text, e)

\* SOURCE_URL_REGEX.test(text) (lines 176, 223)
SOURCE_URL_REGEX_test(text) == \E i \in 1..Len(text) : SourceUrlMatchAt(text, i)

\* expressionWithSourceUrl (lines 223-225)
expressionWithSourceUrl_AlwaysAppend(expression) == expression \o <<"\n">> \o suffix

expressionWithSourceUrl(expression) ==
    IF SOURCE_URL_REGEX_test(expression) THEN expression
    ELSE expression \o <<"\n">> \o suffix

functionDeclaration_NoSuffix(text) == text \o <<"\n">>

\* functionDeclaration: functionText + '\n' + suffix + '\n' (line 281)
functionDeclaration(text) == text \o <<"\n">> \o suffix \o <<"\n">>

(***************************************************************************)
(* Callable source text, as Function.prototype.toString prints it.         *)
(* Tokens: "async ", "function ", "get ", "*", a name, "(x)", " => ",      *)
(* and a body.                                                             *)
(***************************************************************************)
EmptyBody == <<"{", "}">>
CommentBody == <<"{", "\n", "//#", " ", "sourceURL=", "x", "\n", "}">>
NativeBody == <<"{", "[native code]", "}">>
SourceBodies == {EmptyBody, CommentBody}
FunctionNames == {"f", "async"}

FunctionExpressions ==
    {pre \o <<"function ">> \o star \o name \o <<"(x)">> \o body :
        pre \in {<<>>, <<"async ">>}, star \in {<<>>, <<"*">>},
        name \in {<<>>} \cup {<<n>> : n \in FunctionNames}, body \in SourceBodies}
ArrowFunctions ==
    {pre \o <<"(x)", " => ">> \o body :
        pre \in {<<>>, <<"async ">>}, body \in SourceBodies \cup {<<"x">>}}
\* name(x) {}, async name(x) {}, *name(x) {}, async *name(x) {}
ShorthandMethods ==
    {pre \o star \o <<n, "(x)">> \o body :
        pre \in {<<>>, <<"async ">>}, star \in {<<>>, <<"*">>},
        n \in FunctionNames, body \in SourceBodies}
\* get name() {} and set name(x) {} print with their keyword
AccessorMethods ==
    {<<"get ", n, "(x)">> \o body : n \in FunctionNames, body \in SourceBodies}
NativeFunctions == {<<"function ", n, "(x)">> \o NativeBody : n \in FunctionNames}

FunctionTexts ==
    FunctionExpressions \cup ArrowFunctions \cup ShorthandMethods
        \cup AccessorMethods \cup NativeFunctions

\* new Function('(' + text + ')') does not throw (lines 261, 271): text is a
\* function expression or an arrow function.
ParsesAsExpression(text) == text \in FunctionExpressions \cup ArrowFunctions

\* The repair of lines 265-268.
repairFunctionText_AlwaysPrepend(text) == <<"function ">> \o text

repairFunctionText(text) ==
    IF startsWith(text, "async ")
    THEN <<"async ", "function ">> \o SubSeq(text, 2, Len(text))
    ELSE <<"function ">> \o text

(***************************************************************************)
(* Transport errors and responses.                                         *)
(***************************************************************************)
PhraseChainTooLong == "Object reference chain is too long"
PhraseNotByValue == "Object couldn't be returned by value"
PhraseNoContext == "Cannot find context with specified id"
PhraseNavigated == "Inspected target navigated or closed"
PhraseCircular == "Converting circular structure to JSON"
PhraseOther == "Protocol error"
PhraseHint == " Are you passing a nested JSHandle?"
PhraseDestroyed == "Execution context was destroyed, most likely because of a navigation."

MessagePhrases ==
    {PhraseChainTooLong, PhraseNotByValue, PhraseNoContext, PhraseNavigated,
     PhraseCircular, PhraseOther}
Messages == SeqsUpTo(MessagePhrases, MaxMsgLen)
TransportErrors ==
    {MakeError(cls, msg, "transport") : cls \in {"Error", "TypeError"}, msg \in Messages}

\* exceptionDetails of a response; present = FALSE when the field is absent,
\* hasDescription = FALSE when exception.description is undefined.
NoExceptionDetails ==
    [present |-> FALSE, className |-> "", hasDescription |-> FALSE, description |-> <<>>]
ThrownError ==
    [present |-> TRUE, className |-> "RangeError", hasDescription |-> TRUE,
     description |-> <<"RangeError: boom", "\n", "at", "f", "\n", "at", "g">>]
ThrownPrimitive ==
    [present |-> TRUE, className |-> "", hasDescription |-> FALSE, description |-> <<>>]
ExceptionPayloads == {NoExceptionDetails, ThrownError, ThrownPrimitive}

Response(result, exceptionDetails) ==
    [result |-> result, exceptionDetails |-> exceptionDetails]
UndefinedResult == RemoteObject("undefined", <<>>, Undefined, <<>>)
NoResponse == Response(UndefinedResult, NoExceptionDetails)

ResultObjects ==
    {UndefinedResult,
     RemoteObject("number", <<>>, Num(2), <<>>),
     RemoteObject("number", TagNegZero, Undefined, <<>>),
     RemoteObject("number", TagNaN, Undefined, <<>>),
     RemoteObject("number", TagInfinity, Undefined, <<>>),
     RemoteObject("number", TagNegInfinity, Undefined, <<>>),
     RemoteObject("bigint", <<"1", "2", "n">>, Undefined, <<>>),
     RemoteObject("bigint", <<"-", "7", "n">>, Undefined, <<>>),
     RemoteObject("number", <<"1", "2", "n">>, Undefined, <<>>),
     RemoteObject("bigint", TagNaN, Undefined, <<>>),
     RemoteObject("bigint", TagNegZero, Undefined, <<>>),
     RemoteObject("bigint", <<"n">>, Undefined, <<>>),
     RemoteObject("symbol", <<"x">>, Undefined, <<>>)}
Responses == {Response(r, e) : r \in ResultObjects, e \in ExceptionPayloads}

\* What client.send does with the command: throw synchronously, return a
\* promise that rejects, or return a promise that resolves.
TransportThrows(e) == [mode |-> "throw", error |-> e, response |-> NoResponse]
TransportRejects(e) == [mode |-> "reject", error |-> e, response |-> NoResponse]
TransportResolves(r) == [mode |-> "resolve", error |-> NoError, response |-> r]
\* The promise of client.send never settles.
TransportPending == [mode |-> "pending", error |-> NoError, response |-> NoResponse]
Transports ==
    {TransportPending}
        \cup {TransportThrows(e) : e \in TransportErrors}
        \cup {TransportRejects(e) : e \in TransportErrors}
        \cup {TransportResolves(r) : r \in Responses}

(***************************************************************************)
(* rewriteError (lines 349-363)                                            *)
(***************************************************************************)
rewriteError_SuffixFirst(error) ==
    IF \/ endsWith(error.msg, PhraseNoContext)
       \/ endsWith(error.msg, PhraseNavigated)
    THEN Throw(NewError(<<PhraseDestroyed>>))
    ELSE IF includes(error.msg, PhraseChainTooLong) THEN Return(NoResponse)
    ELSE IF includes(error.msg, PhraseNotByValue) THEN Return(NoResponse)
    ELSE Throw(error)

rewriteError_OnlyNoContext(error) ==
    IF includes(error.msg, PhraseChainTooLong) THEN Return(NoResponse)
    ELSE IF includes(error.msg, PhraseNotByValue) THEN Return(NoResponse)
    ELSE IF endsWith(error.msg, PhraseNoContext)
    THEN Throw(NewError(<<PhraseDestroyed>>))
    ELSE Throw(error)

rewriteError_WrapsOthers(error) ==
    IF includes(error.msg, PhraseChainTooLong) THEN Return(NoResponse)
    ELSE IF includes(error.msg, PhraseNotByValue) THEN Return(NoResponse)
    ELSE IF \/ endsWith(error.msg, PhraseNoContext)
            \/ endsWith(error.msg, PhraseNavigated)
    THEN Throw(NewError(<<PhraseDestroyed>>))
    ELSE Throw(NewError(error.msg))

rewriteError(error) ==
    IF includes(error.msg, PhraseChainTooLong) THEN Return(NoResponse)
    ELSE IF includes(error.msg, PhraseNotByValue) THEN Return(NoResponse)
    ELSE IF \/ endsWith(error.msg, PhraseNoContext)
            \/ endsWith(error.msg, PhraseNavigated)
    THEN Throw(NewError(<<PhraseDestroyed>>))
    ELSE Throw(error)

(***************************************************************************)
(* Building the error of a remote exception (lines 237-248, 303-316).      *)
(***************************************************************************)
\* parseStack keeps the lines that describe a frame, in order.
parseStack(lines) == SelectSeq(lines, LAMBDA l : startsWith(l, "at"))

\* new SymbolicateableError({stack, name, message, frame, stackFrame}); the
\* split of an undefined description throws a TypeError instead.
symbolicateableError(exceptionDetails, frameIndex) ==
    IF exceptionDetails.hasDescription
    THEN [cls |-> "SymbolicateableError",
          name |-> exceptionDetails.className,
          msg |-> split(exceptionDetails.description)[1],
          origin |-> "remote",
          stack |-> exceptionDetails.description,
          frame |-> frameIndex,
          stackFrame |-> parseStack(split(exceptionDetails.description))]
    ELSE MakeError("TypeError",
                   <<"Cannot read properties of undefined (reading 'split')">>, "engine")

catchSendError_AnyClass(error) ==
    IF startsWith(error.msg, PhraseCircular)
    THEN [error EXCEPT !.msg = Append(error.msg, PhraseHint)]
    ELSE error

\* The catch block around client.send('Runtime.callFunctionOn') (lines 290-297).
catchSendError(error) ==
    IF error.cls = "TypeError" /\ startsWith(error.msg, PhraseCircular)
    THEN [error EXCEPT !.msg = Append(error.msg, PhraseHint)]
    ELSE error

(***************************************************************************)
(* _evaluateInternal (lines 206-319)                                       *)
(***************************************************************************)
isString(obj) == obj.kind = "string"
isFunction_AnyNonString(obj) == obj.kind # "string"
isFunction(obj) == obj.kind = "function"

StringInput(text) == [kind |-> "string", text |-> text]
FunctionInput(text) == [kind |-> "function", text |-> text]
OtherInput == [kind |-> "other", text |-> <<>>]

Pending == [kind |-> "none", value |-> Undefined, error |-> NoError]
Resolved(v) == [kind |-> "value", value |-> v, error |-> NoError]
Rejected(e) == [kind |-> "error", value |-> Undefined, error |-> e]

\* The parameters of client.send('Runtime.evaluate', ...) (lines 228-234).
evaluateCommand(expression) ==
    [method |-> "Runtime.evaluate", program |-> expressionWithSourceUrl(expression),
     contextId |-> contextId, hasArguments |-> FALSE, arguments |-> <<>>,
     returnByValue |-> TRUE, awaitPromise |-> TRUE, userGesture |-> TRUE]

callFunctionOnCommand_ReversedArguments(text, arguments) ==
    [method |-> "Runtime.callFunctionOn", program |-> functionDeclaration(text),
     contextId |-> contextId, hasArguments |-> TRUE,
     arguments |-> [i \in 1..Len(arguments) |-> arguments[Len(arguments) + 1 - i]],
     returnByValue |-> TRUE, awaitPromise |-> TRUE, userGesture |-> TRUE]

\* The parameters of client.send('Runtime.callFunctionOn', ...) (lines 280-289).
callFunctionOnCommand(text, arguments) ==
    [method |-> "Runtime.callFunctionOn", program |-> functionDeclaration(text),
     contextId |-> contextId, hasArguments |-> TRUE, arguments |-> arguments,
     returnByValue |-> TRUE, awaitPromise |-> TRUE, userGesture |-> TRUE]

\* The call ends: the promise of _evaluateInternal settles.
Finish(result) ==
    /\ pc' = IF result.kind = "value" THEN "Succeeded" ELSE "Failed"
    /\ outcome' = result

\* After the await (lines 237-250 and 303-318): settled is the response, or
\* what rewriteError threw.
afterAwait(settled) ==
    IF ~settled.ok THEN Rejected(settled.err)
    ELSE IF settled.val.exceptionDetails.present
    THEN Rejected(symbolicateableError(settled.val.exceptionDetails, frame))
    ELSE LET decoded == valueFromRemoteObject(settled.val.result)
         IN  IF decoded.ok THEN Resolved(decoded.val) ELSE Rejected(decoded.err)

\* Lines 221-235: a string is sent as an expression; a synchronous throw of
\* client.send rejects the call with that error.
EvaluateExpression ==
    /\ pc = "start"
    /\ isString(pageFunction)
    /\ sent' = Append(sent, evaluateCommand(pageFunction.text))
    /\ IF transport.mode = "throw"
       THEN Finish(Rejected(transport.error))
       ELSE pc' = "awaitEvaluate" /\ outcome' = outcome
    /\ UNCHANGED <<pageFunction, args, frame, contextId, transport, disposed,
                   functionText, converted>>
    /\ UNCHANGED <<codecVars, suspended>>

\* The error of lines 254-256.
ExpectedTypeError ==
    NewError(<<"Expected to get |string| or |function| as the first argument">>)

\* Lines 253-256.
RejectPageFunction ==
    /\ pc = "start"
    /\ ~isString(pageFunction)
    /\ ~isFunction(pageFunction)
    /\ Finish(Rejected(ExpectedTypeError))
    /\ UNCHANGED <<pageFunction, args, frame, contextId, transport, disposed,
                   functionText, converted, sent>>
    /\ UNCHANGED <<codecVars, suspended>>

\* Line 258.
SerializeFunction ==
    /\ pc = "start"
    /\ ~isString(pageFunction)
    /\ isFunction(pageFunction)
    /\ functionText' = pageFunction.text
    /\ pc' = "validate"
    /\ UNCHANGED <<pageFunction, args, frame, contextId, transport, disposed,
                   converted, sent, outcome>>
    /\ UNCHANGED <<codecVars, suspended>>

\* Lines 259-268: the first parse, and the repair when it throws.
ValidateFunctionText ==
    /\ pc = "validate"
    /\ IF ParsesAsExpression(functionText)
       THEN pc' = "marshal" /\ functionText' = functionText
       ELSE pc' = "revalidate" /\ functionText' = repairFunctionText(functionText)
    /\ UNCHANGED <<pageFunction, args, frame, contextId, transport, disposed,
                   converted, sent, outcome>>
    /\ UNCHANGED <<codecVars, suspended>>

\* Lines 269-275: the parse of the repaired text.
RevalidateFunctionText ==
    /\ pc = "revalidate"
    /\ IF ParsesAsExpression(functionText)
       THEN pc' = "marshal" /\ outcome' = outcome
       ELSE Finish(Rejected(NewError(<<"Passed function is not well-serializable!">>)))
    /\ UNCHANGED <<pageFunction, args, frame, contextId, transport, disposed,
                   functionText, converted, sent>>
    /\ UNCHANGED <<codecVars, suspended>>

\* Lines 283-285: args.map converts the next argument; a throw lands in the
\* catch block of lines 290-297.
ConvertNextArgument ==
    /\ pc = "marshal"
    /\ Len(converted) < Len(args)
    /\ LET r == convertArgument(args[Len(converted) + 1])
       IN  IF r.ok
           THEN converted' = Append(converted, r.val) /\ pc' = pc /\ outcome' = outcome
           ELSE converted' = converted /\ Finish(Rejected(catchSendError(r.err)))
    /\ UNCHANGED <<pageFunction, args, frame, contextId, transport, disposed,
                   functionText, sent>>
    /\ UNCHANGED <<codecVars, suspended>>

SendCallFunctionOn_BeforeMarshalling ==
    /\ pc = "marshal"
    /\ sent' = Append(sent, callFunctionOnCommand(functionText, converted))
    /\ IF transport.mode = "throw"
       THEN Finish(Rejected(catchSendError(transport.error)))
       ELSE pc' = "awaitCall" /\ outcome' = outcome
    /\ UNCHANGED <<pageFunction, args, frame, contextId, transport, disposed,
                   functionText, converted>>
    /\ UNCHANGED <<codecVars, suspended>>

\* Lines 280-297: the command is handed to client.send once every argument
\* is converted.
SendCallFunctionOn ==
    /\ pc = "marshal"
    /\ Len(converted) = Len(args)
    /\ sent' = Append(sent, callFunctionOnCommand(functionText, converted))
    /\ IF transport.mode = "throw"
       THEN Finish(Rejected(catchSendError(transport.error)))
       ELSE pc' = "awaitCall" /\ outcome' = outcome
    /\ UNCHANGED <<pageFunction, args, frame, contextId, transport, disposed,
                   functionText, converted>>
    /\ UNCHANGED <<codecVars, suspended>>

\* Lines 227-250, the promise of Runtime.evaluate resolves.
EvaluateResolved ==
    /\ pc = "awaitEvaluate"
    /\ transport.mode = "resolve"
    /\ Finish(afterAwait(Return(transport.response)))
    /\ UNCHANGED <<pageFunction, args, frame, contextId, transport, disposed,
                   functionText, converted, sent>>
    /\ UNCHANGED <<codecVars, suspended>>

EvaluateRejected_Swallowed ==
    /\ pc = "awaitEvaluate"
    /\ transport.mode = "reject"
    /\ UNCHANGED vars

\* Lines 227-250, the promise of Runtime.evaluate rejects: .catch(rewriteError).
EvaluateRejected ==
    /\ pc = "awaitEvaluate"
    /\ transport.mode = "reject"
    /\ Finish(afterAwait(rewriteError(transport.error)))
    /\ UNCHANGED <<pageFunction, args, frame, contextId, transport, disposed,
                   functionText, converted, sent>>
    /\ UNCHANGED <<codecVars, suspended>>

\* Lines 299-318, the promise of Runtime.callFunctionOn resolves.
CallFunctionOnResolved ==
    /\ pc = "awaitCall"
    /\ transport.mode = "resolve"
    /\ Finish(afterAwait(Return(transport.response)))
    /\ UNCHANGED <<pageFunction, args, frame, contextId, transport, disposed,
                   functionText, converted, sent>>
    /\ UNCHANGED <<codecVars, suspended>>

CallFunctionOnRejected_Retries ==
    /\ pc = "awaitCall"
    /\ transport.mode = "reject"
    /\ sent' = Append(sent, callFunctionOnCommand(functionText, converted))
    /\ Finish(afterAwait(rewriteError(transport.error)))
    /\ UNCHANGED <<pageFunction, args, frame, contextId, transport, disposed,
                   functionText, converted>>
    /\ UNCHANGED <<codecVars, suspended>>

\* Lines 299-318, the promise of Runtime.callFunctionOn rejects.
CallFunctionOnRejected ==
    /\ pc = "awaitCall"
    /\ transport.mode = "reject"
    /\ Finish(afterAwait(rewriteError(transport.error)))
    /\ UNCHANGED <<pageFunction, args, frame, contextId, transport, disposed,
                   functionText, converted, sent>>
    /\ UNCHANGED <<codecVars, suspended>>

\* The collaborator that owns a handle disposes it; other code runs only
\* while the call is suspended at its await.
DisposeHandle(h) ==
    /\ pc \in {"awaitEvaluate", "awaitCall"}
    /\ ~disposed[h]
    /\ disposed' = [disposed EXCEPT ![h] = TRUE]
    /\ UNCHANGED callVars
    /\ UNCHANGED <<codecVars, suspended>>

Next ==
    \/ EvaluateExpression
    \/ RejectPageFunction
    \/ SerializeFunction
    \/ ValidateFunctionText
    \/ RevalidateFunctionText
    \/ ConvertNextArgument
    \/ SendCallFunctionOn
    \/ EvaluateResolved
    \/ EvaluateRejected
    \/ CallFunctionOnResolved
    \/ CallFunctionOnRejected
    \/ \E h \in HandleIds : DisposeHandle(h)

(***************************************************************************)
(* Initial states.                                                         *)
(***************************************************************************)
ExpressionTokens == {" ", "\t", "\n", "x", "//#", "//@", "sourceURL="}
ExpressionTexts == SeqsUpTo(ExpressionTokens, MaxTextLen)

SamplePageFunctions ==
    {StringInput(<<"x">>),
     StringInput(<<"//#", " ", "sourceURL=", "x">>),
     FunctionInput(<<"(x)", " => ", "x">>),
     FunctionInput(<<"f", "(x)", "{", "}">>),
     FunctionInput(<<"async ", "f", "(x)", "{", "}">>),
     FunctionInput(<<"get ", "f", "(x)", "{", "}">>),
     OtherInput}

ArgValues ==
    {Num(5), NegZero, BigIntV(MaxBig), PlainObject} \cup {HandleV(h) : h \in HandleIds}
ArgLists == SeqsUpTo(ArgValues, MaxArgs)
SampleArgLists == {<<>>, <<Num(5)>>}

SampleTransports ==
    {TransportResolves(Response(RemoteObject("number", <<>>, Num(2), <<>>), NoExceptionDetails)),
     TransportRejects(MakeError("Error", <<PhraseOther>>, "transport"))}

OnlyFirstLive == [h \in HandleIds |-> h # "h1"]

\* No second call.
NoCall ==
    [pageFunction |-> OtherInput, args |-> <<>>, frame |-> <<>>, contextId |-> 0,
     transport |-> TransportResolves(NoResponse), pc |-> "none", functionText |-> <<>>,
     converted |-> <<>>, sent |-> <<>>, outcome |-> Pending]

InitLocals ==
    /\ suspended = NoCall
    /\ pc = "start"
    /\ functionText = <<>>
    /\ converted = <<>>
    /\ sent = <<>>
    /\ outcome = Pending

InitCodecIdle ==
    /\ cval = Undefined
    /\ cro = UndefinedResult
    /\ cenc = Return(ArgValue(Undefined))
    /\ cdec = Return(Undefined)
    /\ cpc = "idle"

\* Every transport behaviour, on a few representative calls.
Init ==
    /\ pageFunction \in SamplePageFunctions
    /\ args \in SampleArgLists
    /\ \E site \in {<<1, <<>> >>, <<2, <<0>> >>} : contextId = site[1] /\ frame = site[2]
    /\ transport \in Transports
    /\ disposed = OnlyFirstLive
    /\ InitLocals
    /\ InitCodecIdle

\* Every argument list and every state of the handles, on a few
\* representative program texts and transport behaviours.
InitArgs ==
    /\ pageFunction \in SamplePageFunctions
    /\ args \in ArgLists
    /\ contextId = 1
    /\ frame = <<>>
    /\ transport \in SampleTransports
    /\ disposed \in [HandleIds -> BOOLEAN]
    /\ InitLocals
    /\ InitCodecIdle

\* Every program text, on a few representative transport behaviours.
InitText ==
    /\ \/ pageFunction \in {StringInput(t) : t \in ExpressionTexts} /\ args = <<>>
       \/ pageFunction \in {FunctionInput(t) : t \in FunctionTexts} /\ args \in SampleArgLists
       \/ pageFunction = OtherInput /\ args = <<>>
    /\ contextId = 1
    /\ frame = <<>>
    /\ transport \in SampleTransports
    /\ disposed = OnlyFirstLive
    /\ InitLocals
    /\ InitCodecIdle

Spec == Init /\ [][Next]_vars

\* The steps of _evaluateInternal itself.  The synchronous code runs to its
\* end, and the continuation of a settled promise is run by the event loop.
CallStep ==
    \/ EvaluateExpression
    \/ RejectPageFunction
    \/ SerializeFunction
    \/ ValidateFunctionText
    \/ RevalidateFunctionText
    \/ ConvertNextArgument
    \/ SendCallFunctionOn
    \/ EvaluateResolved
    \/ EvaluateRejected
    \/ CallFunctionOnResolved
    \/ CallFunctionOnRejected
SpecLive == Init /\ [][Next]_vars /\ WF_vars(CallStep)
SpecArgs == InitArgs /\ [][Next]_vars
SpecText == InitText /\ [][Next]_vars

(***************************************************************************)
(* Two calls of _evaluateInternal in flight.  JavaScript runs one call at   *)
(* a time: the variables of the call machine hold the call that is running *)
(* and suspended holds the other one, which has not started yet or waits   *)
(* at its await (lines 227, 300).  Parameters and locals (lines 206-219,   *)
(* 258, 277) belong to the call and move with it.                          *)
(***************************************************************************)
RunningCall ==
    [pageFunction |-> pageFunction, args |-> args, frame |-> frame,
     contextId |-> contextId, transport |-> transport, pc |-> pc,
     functionText |-> functionText, converted |-> converted, sent |-> sent,
     outcome |-> outcome]

YieldPcs == {"start", "awaitEvaluate", "awaitCall", "Succeeded", "Failed"}

Resume_SharedConverted ==
    /\ suspended.pc \notin {"none", "Succeeded", "Failed"}
    /\ pc \in YieldPcs
    /\ suspended' = RunningCall
    /\ pageFunction' = suspended.pageFunction
    /\ args' = suspended.args
    /\ frame' = suspended.frame
    /\ contextId' = suspended.contextId
    /\ transport' = suspended.transport
    /\ pc' = suspended.pc
    /\ functionText' = suspended.functionText
    /\ converted' = converted
    /\ sent' = suspended.sent
    /\ outcome' = suspended.outcome
    /\ UNCHANGED disposed
    /\ UNCHANGED codecVars

\* The running call has yielded (not started, awaiting, or ended) and the
\* other call runs next.
Resume ==
    /\ suspended.pc \notin {"none", "Succeeded", "Failed"}
    /\ pc \in YieldPcs
    /\ suspended' = RunningCall
    /\ pageFunction' = suspended.pageFunction
    /\ args' = suspended.args
    /\ frame' = suspended.frame
    /\ contextId' = suspended.contextId
    /\ transport' = suspended.transport
    /\ pc' = suspended.pc
    /\ functionText' = suspended.functionText
    /\ converted' = suspended.converted
    /\ sent' = suspended.sent
    /\ outcome' = suspended.outcome
    /\ UNCHANGED disposed
    /\ UNCHANGED codecVars

ConcPageFunctions ==
    {StringInput(<<"x">>),
     FunctionInput(<<"(x)", " => ", "x">>),
     FunctionInput(<<"f", "(x)", "{", "}">>),
     FunctionInput(<<"get ", "f", "(x)", "{", "}">>),
     OtherInput}
ConcArgLists == {<<>>, <<HandleV("h1")>>, <<Num(5), HandleV("h1")>>}
ConcTransports ==
    SampleTransports
        \cup {TransportResolves(Response(UndefinedResult, ThrownError))}
ConcSites == {<<1, <<>> >>, <<2, <<0>> >>}

\* Two calls on the same or on different contexts, neither started.
InitConc ==
    /\ pageFunction \in ConcPageFunctions
    /\ args \in ConcArgLists
    /\ contextId = 1
    /\ frame = <<>>
    /\ transport \in ConcTransports
    /\ pc = "start"
    /\ functionText = <<>>
    /\ converted = <<>>
    /\ sent = <<>>
    /\ outcome = Pending
    /\ suspended \in
          {[pageFunction |-> f, args |-> a, frame |-> site[2], contextId |-> site[1],
            transport |-> t, pc |-> "start", functionText |-> <<>>,
            converted |-> <<>>, sent |-> <<>>, outcome |-> Pending] :
              f \in ConcPageFunctions, a \in ConcArgLists, site \in ConcSites,
              t \in ConcTransports}
    /\ disposed = OnlyFirstLive
    /\ InitCodecIdle

NextConc == Next \/ Resume
SpecConc == InitConc /\ [][NextConc]_vars

(***************************************************************************)
(* Codec harness: convertArgument and valueFromRemoteObject applied to     *)
(* every value and every response object of the bounded sets.              *)
(***************************************************************************)
InitCallIdle ==
    /\ suspended = NoCall
    /\ pageFunction = OtherInput
    /\ args = <<>>
    /\ contextId = 1
    /\ frame = <<>>
    /\ transport = TransportResolves(NoResponse)
    /\ pc = "idle"
    /\ functionText = <<>>
    /\ converted = <<>>
    /\ sent = <<>>
    /\ outcome = Pending

InitCodec ==
    /\ cval \in CodecValues
    /\ cro \in ResultObjects
    /\ disposed \in [HandleIds -> BOOLEAN]
    /\ cenc = Return(ArgValue(Undefined))
    /\ cdec = Return(Undefined)
    /\ cpc = "input"
    /\ InitCallIdle

\* convertArgument(cval)
Encode ==
    /\ cpc = "input"
    /\ cenc' = convertArgument(cval)
    /\ cpc' = "encoded"
    /\ UNCHANGED <<cval, cro, cdec, disposed>>
    /\ UNCHANGED <<callVars, suspended>>

\* valueFromRemoteObject(convertArgument(cval))
DecodeEncoded ==
    /\ cpc = "encoded"
    /\ cenc.ok
    /\ cdec' = valueFromRemoteObject(AsRemoteObject(cenc.val))
    /\ cpc' = "decoded"
    /\ UNCHANGED <<cval, cro, cenc, disposed>>
    /\ UNCHANGED <<callVars, suspended>>

\* valueFromRemoteObject of the remote object that carries the converted
\* argument's fields together with the type of the value (a RemoteObject, unlike
\* a CallArgument, has a type).
TypedRemoteObject(v, a) == RemoteObject(v.t, a.unserializableValue, a.value, a.objectId)
DecodeTyped ==
    /\ cpc = "encoded"
    /\ cenc.ok
    /\ cval.t # "handle"
    /\ cdec' = valueFromRemoteObject(TypedRemoteObject(cval, cenc.val))
    /\ cpc' = "echoed"
    /\ UNCHANGED <<cval, cro, cenc, disposed>>
    /\ UNCHANGED <<callVars, suspended>>

\* valueFromRemoteObject(cro)
DecodeResponse ==
    /\ cpc = "input"
    /\ cdec' = valueFromRemoteObject(cro)
    /\ cpc' = "received"
    /\ UNCHANGED <<cval, cro, cenc, disposed>>
    /\ UNCHANGED <<callVars, suspended>>

NextCodec == Encode \/ DecodeEncoded \/ DecodeTyped \/ DecodeResponse

SpecCodec == InitCodec /\ [][NextCodec]_vars

(***************************************************************************)
(* Properties.                                                             *)
(***************************************************************************)
BuildingPcs == {"start", "validate", "revalidate", "marshal"}
AwaitPcs == {"awaitEvaluate", "awaitCall"}
TerminalPcs == {"Succeeded", "Failed"}

IsDisposedHandle(v) == v.t = "handle" /\ disposed[v.k]
HasDisposedArg == \E i \in 1..Len(args) : IsDisposedHandle(args[i])
DisposedError == NewError(<<"JSHandle is disposed!">>)
NotSerializableError == NewError(<<"Passed function is not well-serializable!">>)
DestroyedError == NewError(<<PhraseDestroyed>>)

\* The command was sent and its promise rejected, and the call has ended.
RejectedByTransport ==
    transport.mode = "reject" /\ Len(sent) = 1 /\ pc \in TerminalPcs
EndsWithContextGone ==
    \/ endsWith(transport.error.msg, PhraseNoContext)
    \/ endsWith(transport.error.msg, PhraseNavigated)
ContainsUnserializablePhrase ==
    \/ includes(transport.error.msg, PhraseChainTooLong)
    \/ includes(transport.error.msg, PhraseNotByValue)

\* C1 as stated: while the call is Building with a disposed handle among its
\* arguments, no step hands a command to client.send and the call can only
\* end in Failed, for string and function input alike.
C1_EveryCallShape ==
    [][(pc \in BuildingPcs /\ HasDisposedArg)
          => (sent' = <<>> /\ pc' \in BuildingPcs \cup {"Failed"})]_vars

\* C1 amended: the above holds for every pageFunction that is not a string;
\* a string pageFunction is sent as an expression without any argument being
\* converted, whatever the argument list holds.
C1_DisposedHandleNeverSent ==
    [][/\ (pc \in BuildingPcs /\ HasDisposedArg /\ ~isString(pageFunction))
             => (sent' = <<>> /\ pc' \in BuildingPcs \cup {"Failed"})
       /\ (pc = "start" /\ HasDisposedArg /\ isString(pageFunction))
             => (Len(sent') = 1 /\ converted' = <<>> /\ ~sent'[1].hasArguments)]_vars

C1_Witness ==
    /\ pc = "Failed"
    /\ isFunction(pageFunction)
    /\ Len(args) = 2
    /\ ~IsDisposedHandle(args[1])
    /\ IsDisposedHandle(args[2])
    /\ outcome = Rejected(DisposedError)
    /\ sent = <<>>

\* C2 as stated: a rejection whose message ends with one of the two
\* context-gone phrases always fails the call with the canonical error.
C2_WhateverTheRest ==
    (RejectedByTransport /\ EndsWithContextGone)
        => (pc = "Failed" /\ outcome = Rejected(DestroyedError))

\* C2 amended: ... provided the message contains neither "Object reference
\* chain is too long" nor "Object couldn't be returned by value".
C2_ContextGoneCanonical ==
    (RejectedByTransport /\ EndsWithContextGone /\ ~ContainsUnserializablePhrase)
        => (pc = "Failed" /\ outcome = Rejected(DestroyedError))

C2_Witness ==
    /\ RejectedByTransport
    /\ transport.error.msg = <<PhraseOther, PhraseNavigated>>
    /\ outcome = Rejected(DestroyedError)

\* C3: a rejection whose message contains one of the two unserializable
\* phrases ends the call in Succeeded with undefined, on both paths.
C3_UnserializableIsEmptySuccess ==
    (RejectedByTransport /\ ContainsUnserializablePhrase)
        => (pc = "Succeeded" /\ outcome = Resolved(Undefined))

C3_Witness ==
    /\ RejectedByTransport
    /\ isFunction(pageFunction)
    /\ transport.error.msg = <<PhraseChainTooLong, PhraseNoContext>>
    /\ pc = "Succeeded"
    /\ outcome = Resolved(Undefined)

\* C4: every rejection ends in exactly one of empty success, the canonical
\* error, or the original error; a message matching none of the four phrases
\* is re-raised as the same error.
C4_ThreeWayClassification ==
    RejectedByTransport =>
        /\ Cardinality({o \in {Resolved(Undefined), Rejected(DestroyedError),
                               Rejected(transport.error)} : outcome = o}) = 1
        /\ (~ContainsUnserializablePhrase /\ ~EndsWithContextGone)
               => outcome = Rejected(transport.error)

C4_Witness ==
    /\ RejectedByTransport
    /\ transport.error.msg = <<PhraseNoContext, PhraseOther>>
    /\ outcome = Rejected(transport.error)

\* C5: client.send is invoked at most once per call, exactly once whenever
\* the call got past Building, and a rejection or an exception payload is
\* never followed by a second send.
BuildingErrors == {DisposedError, NotSerializableError, ExpectedTypeError}
C5_SentExactlyOnce ==
    /\ Len(sent) <= 1
    /\ pc \in AwaitPcs \cup {"Succeeded"} => Len(sent) = 1
    /\ (pc = "Failed" /\ outcome.error \notin BuildingErrors) => Len(sent) = 1

C5_Witness ==
    /\ pc = "Failed"
    /\ isFunction(pageFunction)
    /\ transport.mode = "reject"
    /\ outcome = Rejected(transport.error)
    /\ Len(sent) = 1

\* C6: a fatal error of Building (unparseable callable text after the
\* repair, an argument that cannot be marshalled) ends the call in Failed with
\* nothing sent; the text is validated before any argument is converted,
\* arguments are converted in order up to the first that fails, and the
\* command is sent only with every argument converted.
C6_BuildingBeforeSend ==
    /\ (pc = "Failed" /\ outcome = Rejected(NotSerializableError))
          => (sent = <<>> /\ converted = <<>>)
    /\ (pc = "Failed" /\ outcome = Rejected(DisposedError))
          => /\ sent = <<>>
             /\ Len(converted) < Len(args)
             /\ IsDisposedHandle(args[Len(converted) + 1])
             /\ \A i \in 1..Len(converted) : ~IsDisposedHandle(args[i])
    /\ pc \in {"start", "validate", "revalidate"} => (converted = <<>> /\ sent = <<>>)
    /\ pc = "marshal" => (sent = <<>> /\ ParsesAsExpression(functionText))
    /\ (isFunction(pageFunction) /\ sent # <<>>)
          => /\ ParsesAsExpression(functionText)
             /\ Len(converted) = Len(args)
             /\ sent[1].arguments = converted

C6_Witness ==
    /\ pc = "Failed"
    /\ outcome = Rejected(DisposedError)
    /\ Len(args) = 2
    /\ args[1] = NegZero
    /\ converted = <<ArgUnserializable(TagNegZero)>>
    /\ sent = <<>>

\* Positions of the lines of text that SOURCE_URL_REGEX matches.
MarkerLines(text) == {i \in 1..Len(text) : SourceUrlMatchAt(text, i)}
\* The last marker line is the fixed suffix and is the last line of text.
TrailingFixedMarker(text) ==
    \E i \in MarkerLines(text) :
        /\ \A j \in MarkerLines(text) : j <= i
        /\ i + 3 <= Len(text)
        /\ SubSeq(text, i, i + 3) = suffix
        /\ \/ i + 3 = Len(text)
           \/ (i + 4 = Len(text) /\ text[Len(text)] = "\n")

\* C7 as stated: every program text sent holds exactly one marker line, the
\* fixed suffix as its trailing line.
C7_ExactlyOneFixedMarker ==
    \A k \in 1..Len(sent) :
        /\ Cardinality(MarkerLines(sent[k].program)) = 1
        /\ TrailingFixedMarker(sent[k].program)

\* C7 amended: every program text sent holds at least one marker line; when
\* the input text holds none, it holds exactly one, the fixed suffix as its
\* trailing line; a string input that holds one is sent unchanged; a callable
\* text that holds n of them is sent with n + 1, the last being the fixed
\* suffix as its trailing line.
C7_MarkerPresent ==
    \A k \in 1..Len(sent) :
        LET program == sent[k].program
            n == Cardinality(MarkerLines(pageFunction.text))
        IN  /\ Cardinality(MarkerLines(program)) >= 1
            /\ n = 0 => (Cardinality(MarkerLines(program)) = 1
                         /\ TrailingFixedMarker(program))
            /\ (n > 0 /\ isString(pageFunction)) => program = pageFunction.text
            /\ (n > 0 /\ isFunction(pageFunction))
                  => (Cardinality(MarkerLines(program)) = n + 1
                      /\ TrailingFixedMarker(program))

C7_Witness ==
    /\ isFunction(pageFunction)
    /\ Len(sent) = 1
    /\ Cardinality(MarkerLines(pageFunction.text)) = 1
    /\ Cardinality(MarkerLines(sent[1].program)) = 2

\* C8: a string that the pattern matches is sent unchanged; any other string
\* is sent followed by a newline and the suffix, which is then its only marker
\* line and its last line; encoding the text sent again changes nothing.
C8_ExpressionEncoding ==
    (isString(pageFunction) /\ sent # <<>>) =>
        LET expression == pageFunction.text
            program == sent[1].program
        IN  /\ IF SOURCE_URL_REGEX_test(expression)
               THEN program = expression
               ELSE /\ program = expression \o <<"\n">> \o suffix
                    /\ MarkerLines(program) = {Len(expression) + 2}
                    /\ TrailingFixedMarker(program)
            /\ expressionWithSourceUrl(program) = program

C8_Witness ==
    /\ isString(pageFunction)
    /\ Len(sent) = 1
    /\ pageFunction.text = <<"x", "//#", " ", "sourceURL=">>
    /\ Len(sent[1].program) = 9

\* C9: callable text that parses is sent as printed; text that does not is
\* repaired once ('function ' after a leading 'async ', else in front) and
\* sent only if the repaired text parses, else the call fails unsent; the
\* text is never changed a second time.
RepairedOnce(text) ==
    IF Len(text) >= 1 /\ text[1] = "async "
    THEN <<"async ", "function ">> \o Tail(text)
    ELSE <<"function ">> \o text
C9_SingleRepair ==
    isFunction(pageFunction) =>
        LET text == pageFunction.text
        IN  /\ functionText \in {<<>>, text, RepairedOnce(text)}
            /\ sent # <<>> =>
                  IF ParsesAsExpression(text)
                  THEN sent[1].program = text \o <<"\n">> \o suffix \o <<"\n">>
                  ELSE /\ ParsesAsExpression(RepairedOnce(text))
                       /\ sent[1].program =
                              RepairedOnce(text) \o <<"\n">> \o suffix \o <<"\n">>
            /\ (pc \notin {"start", "validate", "revalidate"}
                   /\ ~ParsesAsExpression(text)
                   /\ ~ParsesAsExpression(RepairedOnce(text)))
                  => (pc = "Failed" /\ sent = <<>>
                      /\ outcome = Rejected(NotSerializableError))

C9_Witness ==
    /\ isFunction(pageFunction)
    /\ pageFunction.text = <<"async ", "f", "(x)", "{", "}">>
    /\ Len(sent) = 1
    /\ SubSeq(sent[1].program, 1, 3) = <<"async ", "function ", "f">>

\* C10: -0, NaN, Infinity and -Infinity are converted to four different
\* unserializable tags, and valueFromRemoteObject of each converted argument
\* gives the value back, -0 as -0 and not as 0.
ExpectedTag(v) ==
    CASE v = NegZero -> TagNegZero
      [] v = NaNValue -> TagNaN
      [] v = PosInfinity -> TagInfinity
      [] OTHER -> TagNegInfinity
C10_SentinelRoundTrip ==
    /\ \A a, b \in Sentinels :
          a # b => convertArgument(a).val.unserializableValue
                       # convertArgument(b).val.unserializableValue
    /\ (cval \in Sentinels /\ cpc \in {"encoded", "decoded"})
          => cenc = Return(ArgUnserializable(ExpectedTag(cval)))
    /\ (cval \in Sentinels /\ cpc = "decoded")
          => (cdec = Return(cval) /\ (cval = NegZero => cdec.val # Num(0)))

C10_Witness ==
    /\ cpc = "decoded"
    /\ cval = NegZero
    /\ cenc.val.unserializableValue = TagNegZero
    /\ cdec = Return(NegZero)

\* C11 as stated: the tag of a big integer is its decimal digits followed by
\* 'n', and valueFromRemoteObject of the converted argument itself returns it.
UnsupportedError(tag) == NewError(<<"Unsupported unserializable value: ">> \o tag)
BigIntTag(n) == IntToString(n) \o <<"n">>
C11_DirectRoundTrip ==
    (cval.t = "bigint" /\ cpc = "decoded")
        => (cenc = Return(ArgUnserializable(BigIntTag(cval.n))) /\ cdec = Return(cval))

\* C11 amended: the tag is the decimal digits of n ('-' first when negative)
\* followed by 'n'; valueFromRemoteObject of a remote object of type 'bigint'
\* with that tag returns n; applied to the converted argument itself, which
\* has no type, it throws the unsupported-value error.
C11_TypedRoundTrip ==
    cval.t = "bigint" =>
        /\ cpc \in {"encoded", "decoded", "echoed"} =>
              /\ cenc = Return(ArgUnserializable(BigIntTag(cval.n)))
              /\ LET tag == cenc.val.unserializableValue
                     digits == IF cval.n < 0 THEN SubSeq(tag, 2, Len(tag) - 1)
                               ELSE SubSeq(tag, 1, Len(tag) - 1)
                 IN  /\ tag[Len(tag)] = "n"
                     /\ (cval.n < 0) = (tag[1] = "-")
                     /\ digits # <<>>
                     /\ \A i \in 1..Len(digits) : IsDigit(digits[i])
                     /\ (Len(digits) > 1 => digits[1] # "0")
                     /\ DigitsToNat(digits) = (IF cval.n < 0 THEN 0 - cval.n ELSE cval.n)
        /\ cpc = "echoed" => cdec = Return(cval)
        /\ cpc = "decoded" => cdec = Throw(UnsupportedError(BigIntTag(cval.n)))

C11_Witness ==
    /\ cpc = "echoed"
    /\ cval = BigIntV(0 - MaxBig)
    /\ cenc.val.unserializableValue[1] = "-"
    /\ cdec = Return(cval)

\* C12: a finite number other than -0 (0 included) is converted to the plain
\* {value: v}, without tag or object id, and decodes to v.
C12_FiniteNumbersPlain ==
    (cval.t = "number" /\ cval.k = "fin") =>
        /\ cpc \in {"encoded", "decoded", "echoed"} =>
              /\ cenc.ok
              /\ cenc.val.keys = {"value"}
              /\ cenc.val.value = cval
              /\ cenc.val.unserializableValue = <<>>
              /\ cenc.val.objectId = <<>>
        /\ cpc \in {"decoded", "echoed"} => cdec = Return(cval)

C12_Witness ==
    /\ cpc = "decoded"
    /\ cval = Num(0)
    /\ cenc = Return(ArgValue(Num(0)))
    /\ cdec = Return(Num(0))

\* C13 as stated: a tagged response returns a value exactly for the five
\* recognised tag forms, chosen by the tag alone; any other tag fails with the
\* unsupported-value error; an untagged response returns its value field.
IsBigIntLiteral(tag) ==
    LET front == SubSeq(tag, 1, Len(tag) - 1)
        digits == IF startsWith(front, "-") THEN Tail(front) ELSE front
    IN  /\ endsWith(tag, "n")
        /\ digits # <<>>
        /\ \A i \in 1..Len(digits) : IsDigit(digits[i])
BigIntLiteralValue(tag) ==
    LET front == SubSeq(tag, 1, Len(tag) - 1)
    IN  IF startsWith(front, "-") THEN BigIntV(0 - DigitsToNat(Tail(front)))
        ELSE BigIntV(DigitsToNat(front))
SentinelTags == {TagNegZero, TagNaN, TagInfinity, TagNegInfinity}
SentinelOfTag(tag) == CHOOSE v \in Sentinels : ExpectedTag(v) = tag
C13_DecidedByTag ==
    cpc = "received" =>
        LET tag == cro.unserializableValue
        IN  IF tag = <<>> THEN cdec = Return(cro.value)
            ELSE IF IsBigIntLiteral(tag) THEN cdec = Return(BigIntLiteralValue(tag))
            ELSE IF tag \in SentinelTags THEN cdec = Return(SentinelOfTag(tag))
            ELSE cdec = Throw(UnsupportedError(tag))

\* C13 amended: the big-integer form is chosen by the response's type, the
\* four sentinels by the tag.  Type 'bigint': a '<digits>n' tag returns the
\* integer, any other tag is handed to BigInt, which returns a big integer or
\* fails with a SyntaxError, never the unsupported-value error.  Other types:
\* the four sentinel tags return the sentinel, every other tag ('<digits>n'
\* included) fails with the unsupported-value error.  No tag: the value field.
C13_DecidedByType ==
    cpc = "received" =>
        LET tag == cro.unserializableValue
        IN  IF tag = <<>> THEN cdec = Return(cro.value)
            ELSE IF cro.type = "bigint"
            THEN IF IsBigIntLiteral(tag) THEN cdec = Return(BigIntLiteralValue(tag))
                 ELSE \/ cdec.ok /\ cdec.val.t = "bigint"
                      \/ ~cdec.ok /\ cdec.err.cls = "SyntaxError" /\ cdec.val = Undefined
            ELSE IF tag \in SentinelTags THEN cdec = Return(SentinelOfTag(tag))
            ELSE cdec = Throw(UnsupportedError(tag)) /\ cdec.val = Undefined

C13_Witness ==
    /\ cpc = "received"
    /\ cro.type = "number"
    /\ IsBigIntLiteral(cro.unserializableValue)
    /\ cdec = Throw(UnsupportedError(cro.unserializableValue))

\* C15: for a handle that is not disposed the tag of its remote object wins,
\* then the plain value when there is no object id, then the object id; every
\* CallArgument produced carries exactly one of the three fields.
C15_HandlePrecedence ==
    cpc \in {"encoded", "decoded", "echoed"} =>
        /\ cenc.ok => /\ Cardinality(cenc.val.keys) = 1
                      /\ cenc.val.keys \subseteq {"unserializableValue", "value", "objectId"}
                      /\ "unserializableValue" \notin cenc.val.keys
                            => cenc.val.unserializableValue = <<>>
                      /\ "objectId" \notin cenc.val.keys => cenc.val.objectId = <<>>
                      /\ "value" \notin cenc.val.keys => cenc.val.value = Undefined
        /\ (cval.t = "handle" /\ ~disposed[cval.k]) =>
              LET remoteObject == RemoteObjectOf(cval.k)
              IN  /\ cenc.ok
                  /\ IF remoteObject.unserializableValue # <<>>
                     THEN /\ cenc.val.keys = {"unserializableValue"}
                          /\ cenc.val.unserializableValue = remoteObject.unserializableValue
                     ELSE IF remoteObject.objectId = <<>>
                     THEN /\ cenc.val.keys = {"value"}
                          /\ cenc.val.value = remoteObject.value
                     ELSE /\ cenc.val.keys = {"objectId"}
                          /\ cenc.val.objectId = remoteObject.objectId

C15_Witness ==
    /\ cpc = "encoded"
    /\ cval = HandleV("h4")
    /\ ~disposed["h4"]
    /\ RemoteObjectOf("h4").objectId # <<>>
    /\ cenc = Return(ArgUnserializable(TagNaN))

\* C14 as stated: on either call shape a response with an exception payload
\* ends the call in Failed with a SymbolicateableError named after the remote
\* class, whose message is the first line of the remote description, whose
\* stack is the whole description and whose frame is the caller's frame; the
\* result field of the response is not decoded or returned.
RECURSIVE FirstLine(_)
FirstLine(text) ==
    IF text = <<>> \/ Head(text) = "\n" THEN <<>>
    ELSE <<Head(text)>> \o FirstLine(Tail(text))
ExceptionPayloadReceived ==
    /\ pc \in TerminalPcs
    /\ Len(sent) = 1
    /\ transport.mode = "resolve"
    /\ transport.response.exceptionDetails.present
C14_ExceptionPayloadFails ==
    ExceptionPayloadReceived =>
        LET exception == transport.response.exceptionDetails
        IN  /\ pc = "Failed"
            /\ outcome.kind = "error"
            /\ outcome.value = Undefined
            /\ outcome.error.cls = "SymbolicateableError"
            /\ outcome.error.name = exception.className
            /\ outcome.error.msg = FirstLine(exception.description)
            /\ outcome.error.stack = exception.description
            /\ outcome.error.frame = frame

\* C16 as stated: a 'Converting circular structure to JSON' error of the
\* transport reaches the caller with the nested-handle hint appended, whether
\* send threw it or the promise rejected with it; any other error thrown by
\* send is re-raised unchanged.
IsCircularError(error) == error.cls = "TypeError" /\ startsWith(error.msg, PhraseCircular)
WithHint(error) == [error EXCEPT !.msg = error.msg \o <<PhraseHint>>]
SendFailed ==
    /\ pc \in TerminalPcs
    /\ Len(sent) = 1
    /\ transport.mode \in {"throw", "reject"}
C16_HintOnThrowOrRejection ==
    (SendFailed /\ isFunction(pageFunction)) =>
        IF IsCircularError(transport.error)
        THEN outcome = Rejected(WithHint(transport.error))
        ELSE transport.mode = "throw" => outcome = Rejected(transport.error)

\* C16 amended: the hint is appended only when a callable's client.send
\* throws synchronously a TypeError whose message starts with the circular
\* structure phrase; any other synchronous throw, and every synchronous throw
\* of a string input's send, is re-raised unchanged; a rejection never gets
\* the hint and ends as rewriteError decides.
C16_HintOnSynchronousThrow ==
    SendFailed =>
        /\ (transport.mode = "throw" /\ isFunction(pageFunction)) =>
              IF IsCircularError(transport.error)
              THEN outcome = Rejected(WithHint(transport.error))
              ELSE outcome = Rejected(transport.error)
        /\ (transport.mode = "throw" /\ isString(pageFunction)) =>
              outcome = Rejected(transport.error)
        /\ transport.mode = "reject" =>
              outcome \in {Resolved(Undefined), Rejected(DestroyedError),
                           Rejected(transport.error)}

C16_Witness ==
    /\ SendFailed
    /\ isFunction(pageFunction)
    /\ transport.mode = "throw"
    /\ transport.error.cls = "TypeError"
    /\ transport.error.msg = <<PhraseCircular, PhraseOther>>
    /\ outcome = Rejected(WithHint(transport.error))

\* C17: every command sent carries the call's context id, the final program
\* text and both flags set; a callable's command has an arguments list as long
\* as the caller's, position i holding the converted form of argument i; an
\* expression's command has no arguments field.
MarshalledForm(arg) ==
    IF arg.t = "handle"
    THEN LET remoteObject == RemoteObjectOf(arg.k)
         IN  IF remoteObject.unserializableValue # <<>>
             THEN ArgUnserializable(remoteObject.unserializableValue)
             ELSE IF remoteObject.objectId = <<>> THEN ArgValue(remoteObject.value)
             ELSE ArgObjectId(remoteObject.objectId)
    ELSE IF arg.t = "bigint" THEN ArgUnserializable(BigIntTag(arg.n))
    ELSE IF arg \in Sentinels THEN ArgUnserializable(ExpectedTag(arg))
    ELSE ArgValue(arg)
C17_CommandContents ==
    \A k \in 1..Len(sent) :
        LET command == sent[k]
        IN  /\ command.contextId = contextId
            /\ command.returnByValue
            /\ command.awaitPromise
            /\ isString(pageFunction) =>
                  /\ command.method = "Runtime.evaluate"
                  /\ command.program = expressionWithSourceUrl(pageFunction.text)
                  /\ ~command.hasArguments
                  /\ command.arguments = <<>>
            /\ ~isString(pageFunction) =>
                  /\ command.method = "Runtime.callFunctionOn"
                  /\ command.program = functionDeclaration(functionText)
                  /\ command.hasArguments
                  /\ Len(command.arguments) = Len(args)
                  /\ \A i \in 1..Len(args) :
                        command.arguments[i] = MarshalledForm(args[i])

C17_Witness ==
    /\ Len(sent) = 1
    /\ args = <<HandleV("h1"), BigIntV(MaxBig)>>
    /\ sent[1].arguments = <<ArgObjectId(<<"obj-1">>), ArgUnserializable(BigIntTag(MaxBig))>>
    /\ sent[1].awaitPromise
    /\ sent[1].returnByValue

\* C20: a first argument that is neither a string nor a function fails with
\* the 'Expected to get |string| or |function|' error and nothing is sent; a
\* string never takes a step of the function path and none of its arguments is
\* converted.
FunctionPathPcs == {"validate", "revalidate", "marshal", "awaitCall"}
C20_InputKinds ==
    /\ pageFunction.kind \notin {"string", "function"} =>
          /\ pc \in {"start", "Failed"}
          /\ pc = "Failed" => outcome = Rejected(ExpectedTypeError)
          /\ sent = <<>>
          /\ converted = <<>>
          /\ functionText = <<>>
    /\ pageFunction.kind = "string" =>
          /\ pc \notin FunctionPathPcs
          /\ converted = <<>>
          /\ functionText = <<>>
          /\ \A k \in 1..Len(sent) :
                sent[k].method = "Runtime.evaluate" /\ ~sent[k].hasArguments

C20_Witness ==
    /\ pc = "Failed"
    /\ pageFunction = OtherInput
    /\ Len(args) = MaxArgs
    /\ outcome = Rejected(ExpectedTypeError)
    /\ sent = <<>>

\* C19: with two calls interleaved, the command and the outcome of a call
\* that has ended are what its own inputs and the channel's answer to its own
\* command give, a handle of its own argument list found disposed being the
\* only other way to end; a step never alters the call that is not running,
\* and the step that sets a disposed flag is not a step of a call.  After the
\* command is sent the outcome does not mention the flags, so they are read
\* during Building only.
SerializedText ==
    IF ParsesAsExpression(pageFunction.text) THEN pageFunction.text
    ELSE repairFunctionText(pageFunction.text)
OwnCommand ==
    IF pageFunction.kind = "string" THEN evaluateCommand(pageFunction.text)
    ELSE callFunctionOnCommand(SerializedText, [i \in 1..Len(args) |-> MarshalledForm(args[i])])
OwnOutcome ==
    CASE transport.mode = "throw" ->
            Rejected(IF pageFunction.kind = "string" THEN transport.error
                     ELSE catchSendError(transport.error))
      [] transport.mode = "reject" -> afterAwait(rewriteError(transport.error))
      [] OTHER -> afterAwait(Return(transport.response))
OwnInputsOnly ==
    pc \in TerminalPcs =>
        IF pageFunction.kind \notin {"string", "function"}
        THEN sent = <<>> /\ outcome = Rejected(ExpectedTypeError)
        ELSE IF pageFunction.kind = "function" /\ ~ParsesAsExpression(SerializedText)
        THEN sent = <<>> /\ outcome = Rejected(NotSerializableError)
        ELSE \/ sent = <<OwnCommand>> /\ outcome = OwnOutcome
             \/ /\ pageFunction.kind = "function"
                /\ HasDisposedArg
                /\ sent = <<>>
                /\ outcome = Rejected(DisposedError)
C19_CallsIndependent ==
    /\ []OwnInputsOnly
    /\ [][suspended' # suspended
             => (suspended' = RunningCall /\ RunningCall' = suspended)]_vars
    /\ [][disposed' # disposed
             => (RunningCall' = RunningCall /\ suspended' = suspended)]_vars

C19_Witness ==
    /\ pc = "Succeeded"
    /\ suspended.pc = "Failed"
    /\ suspended.outcome = Rejected(DisposedError)
    /\ suspended.pageFunction = pageFunction
    /\ suspended.args = args
    /\ suspended.transport = transport
    /\ suspended.contextId = contextId
    /\ Len(sent) = 1
    /\ suspended.sent = <<>>

\* C18: the state of a call moves only Building -> Sent -> Succeeded or
\* Failed, or Building -> Failed; an ended call keeps its state and its
\* outcome; a call has a value exactly when it Succeeded and an error exactly
\* when it Failed, never both; and when the channel resolves or rejects the
\* command the call ends.
CallState ==
    IF pc \in BuildingPcs THEN "Building" ELSE IF pc \in AwaitPcs THEN "Sent" ELSE pc
AllowedMoves ==
    {<<"Building", "Building">>, <<"Building", "Sent">>, <<"Building", "Failed">>,
     <<"Sent", "Sent">>, <<"Sent", "Succeeded">>, <<"Sent", "Failed">>,
     <<"Succeeded", "Succeeded">>, <<"Failed", "Failed">>}
OneOutcome ==
    /\ pc = "Succeeded" <=> outcome.kind = "value"
    /\ pc = "Failed" <=> outcome.kind = "error"
    /\ pc \notin TerminalPcs <=> outcome = Pending
    /\ outcome.kind = "value" => outcome.error = NoError
    /\ outcome.kind = "error" => outcome.value = Undefined /\ outcome.error # NoError
OrderedMove == <<CallState, CallState'>> \in AllowedMoves
EndedStays == (pc \in TerminalPcs) => (pc' = pc /\ outcome' = outcome /\ sent' = sent)
C18_CallLifecycle ==
    /\ [][OrderedMove]_vars
    /\ [][EndedStays]_vars
    /\ []OneOutcome
    /\ [](transport.mode \in {"resolve", "reject"} => <>(pc \in TerminalPcs))

C18_Witness ==
    /\ pc = "Succeeded"
    /\ transport.mode = "reject"
    /\ Len(sent) = 1
    /\ outcome = Resolved(Undefined)

====
